---- MODULE Spec2Model ----
(***************************************************************************)
(* A model of linear_terminal_clock/bar.py: the Bar builder, the two       *)
(* offset conversions, the character generator and the scale search.       *)
(*                                                                         *)
(* Instants are integers: a number of microseconds, the resolution of      *)
(* datetime.  A str is a sequence of one-character strings.  An Optional   *)
(* value is None (the empty sequence) or Some(v) (a one-element sequence). *)
(* The outcome of a call is a record: `raised' names the exception ("" when*)
(* the call returned) and `value' is what it returned.                     *)
(***************************************************************************)
EXTENDS Integers, Sequences, FiniteSets, TLC

VARIABLES
    cycle,          \* the Cycle the caller holds
    bar,            \* the Bar last returned by bar_from_cycle_and_length
    call,           \* the last call made: the function and its arguments
    ret,            \* the outcome of that call
    bar_cache,      \* @cached bar_from_cycle_and_length: the outcome per bar_length
    offset_cache,   \* @cached bar_offset_from_bar_and_percent: per bar length and percentage
    pc,             \* the line the redraw loop of main or simulate_time is at
    local_now,      \* the loop's instant (None before it is first assigned)
    handler         \* the SIGWINCH handler registered: None, or the pair it holds

vars == <<cycle, bar, call, ret, bar_cache, offset_cache, pc, local_now, handler>>

----------------------------------------------------------------------------
(* Bounds of the model *)

MaxStart == 1           \* cycle.start ranges over 1..MaxStart
MaxSpan == 7            \* cycle.end - cycle.start ranges over MaxLength..MaxSpan
MaxLength == 5          \* bar_length ranges over -MaxNegLength..MaxLength
MaxNegLength == 2
MaxLabelLen == 4        \* a time label has at most this many characters
MaxScaleLength == 40    \* the bars of the scale search have 1..MaxScaleLength slots
MaxOutside == 3         \* percentages range down to -MaxOutside and up to 100 + MaxOutside
MaxTime == 6            \* the instants of the redraw loop range over 0..MaxTime
MaxWidth == 3           \* the terminal of the redraw loop gives bars of 1..MaxWidth slots
SimStep == 2            \* STEP of simulate_time, in instants

----------------------------------------------------------------------------
(* Python values *)

None == <<>>
Some(v) == <<v>>
TheValue(o) == o[1]

Returned(v) == [raised |-> "", value |-> v]
Raised(e) == [raised |-> e, value |-> None]

\* Python truthiness of an Optional[int]: None and 0 are falsy
TruthyInt(o) == o # None /\ TheValue(o) # 0

\* Python truthiness of an Optional[str]: None and '' are falsy
TruthyStr(o) == o # None /\ Len(TheValue(o)) > 0

----------------------------------------------------------------------------
(* Cycle: start and end instants, an optional sunset, the visible flag *)

Cycles ==
    { [start |-> s, end |-> e, sunset |-> ss, visible |-> v] :
        s \in 1..MaxStart, e \in 2..(MaxStart + MaxSpan),
        ss \in {None} \cup { Some(t) : t \in 2..(MaxStart + MaxSpan - 1) },
        v \in BOOLEAN }

\* a cycle lasts at least one microsecond for each slot of the longest bar, so
\* that no slot is narrower than the microsecond of datetime (the cycles of
\* the program last a day, its bars are as wide as a terminal)
ValidCycle(c) ==
    /\ c.end > c.start
    /\ c.end - c.start >= MaxLength
    /\ c.end - c.start <= MaxSpan
    /\ c.sunset # None => c.start < TheValue(c.sunset) /\ TheValue(c.sunset) < c.end

----------------------------------------------------------------------------
(* Natural numbers of any size, for the 53-bit mantissas of Python's floats:
   the limbs in base 2^15, least significant first, the most significant one
   not zero; zero is the empty sequence. *)

LimbBits == 15
Base == 32768

RECURSIVE Pow2(_)
Pow2(k) == IF k = 0 THEN 1 ELSE 2 * Pow2(k - 1)

RECURSIVE NatOf(_)
NatOf(n) == IF n = 0 THEN <<>> ELSE <<n % Base>> \o NatOf(n \div Base)

RECURSIVE IntOf(_)
IntOf(a) == IF a = <<>> THEN 0 ELSE a[1] + Base * IntOf(Tail(a))

RECURSIVE Norm(_)
Norm(a) ==
    IF a = <<>> THEN a
    ELSE IF a[Len(a)] = 0 THEN Norm(SubSeq(a, 1, Len(a) - 1)) ELSE a

Limb(a, i) == IF i <= Len(a) THEN a[i] ELSE 0

\* -1, 0 or 1 as a < b, a = b or a > b, comparing from limb i down
RECURSIVE CmpFrom(_, _, _)
CmpFrom(a, b, i) ==
    IF i = 0 THEN 0
    ELSE IF Limb(a, i) < Limb(b, i) THEN -1
    ELSE IF Limb(a, i) > Limb(b, i) THEN 1
    ELSE CmpFrom(a, b, i - 1)

Cmp(a, b) == CmpFrom(a, b, IF Len(a) >= Len(b) THEN Len(a) ELSE Len(b))

RECURSIVE AddFrom(_, _, _, _)
AddFrom(a, b, i, carry) ==
    IF i > Len(a) /\ i > Len(b)
    THEN IF carry = 0 THEN <<>> ELSE <<carry>>
    ELSE LET t == Limb(a, i) + Limb(b, i) + carry
         IN  <<t % Base>> \o AddFrom(a, b, i + 1, t \div Base)

NatAdd(a, b) == AddFrom(a, b, 1, 0)

\* a - b for a >= b
RECURSIVE SubFrom(_, _, _, _)
SubFrom(a, b, i, borrow) ==
    IF i > Len(a) THEN <<>>
    ELSE LET t == Limb(a, i) - Limb(b, i) - borrow
         IN  IF t < 0 THEN <<t + Base>> \o SubFrom(a, b, i + 1, 1)
             ELSE <<t>> \o SubFrom(a, b, i + 1, 0)

NatSub(a, b) == Norm(SubFrom(a, b, 1, 0))

\* a * k for 0 <= k <= Base
RECURSIVE MulSmallFrom(_, _, _, _)
MulSmallFrom(a, k, i, carry) ==
    IF i > Len(a)
    THEN IF carry = 0 THEN <<>> ELSE <<carry>>
    ELSE LET t == a[i] * k + carry
         IN  <<t % Base>> \o MulSmallFrom(a, k, i + 1, t \div Base)

NatMulSmall(a, k) == IF k = 0 THEN <<>> ELSE MulSmallFrom(a, k, 1, 0)

\* a * Base^n
ShlLimbs(a, n) == IF a = <<>> THEN a ELSE [i \in 1..n |-> 0] \o a

RECURSIVE NatMulFrom(_, _, _)
NatMulFrom(a, b, j) ==
    IF j > Len(b) THEN <<>>
    ELSE NatAdd(ShlLimbs(NatMulSmall(a, b[j]), j - 1), NatMulFrom(a, b, j + 1))

NatMul(a, b) == NatMulFrom(a, b, 1)

\* a * 2^k
NatShl(a, k) == ShlLimbs(NatMulSmall(a, Pow2(k % LimbBits)), k \div LimbBits)

\* floor(a / 2^k) for 0 <= k < LimbBits
RECURSIVE ShrSmallFrom(_, _, _)
ShrSmallFrom(a, k, i) ==
    IF i > Len(a) THEN <<>>
    ELSE <<(a[i] \div Pow2(k)) + (Limb(a, i + 1) % Pow2(k)) * Pow2(LimbBits - k)>>
         \o ShrSmallFrom(a, k, i + 1)

\* floor(a / 2^k)
NatShr(a, k) ==
    IF k \div LimbBits >= Len(a) THEN <<>>
    ELSE Norm(ShrSmallFrom(SubSeq(a, (k \div LimbBits) + 1, Len(a)), k % LimbBits, 1))

RECURSIVE BitLenSmall(_)
BitLenSmall(n) == IF n = 0 THEN 0 ELSE 1 + BitLenSmall(n \div 2)

BitLen(a) == IF a = <<>> THEN 0 ELSE LimbBits * (Len(a) - 1) + BitLenSmall(a[Len(a)])

IsOdd(a) == a # <<>> /\ a[1] % 2 = 1

\* the largest t with d * t <= a among those that extend t0 by the bits
\* bit, bit - 1, ..., 0
RECURSIVE QuotientDigit(_, _, _, _)
QuotientDigit(a, d, bit, t0) ==
    IF bit < 0 THEN t0
    ELSE IF Cmp(NatMulSmall(d, t0 + Pow2(bit)), a) <= 0
         THEN QuotientDigit(a, d, bit - 1, t0 + Pow2(bit))
         ELSE QuotientDigit(a, d, bit - 1, t0)

\* the quotient limb t of cur / d with what it leaves of cur
DivideRemainder(cur, d, t) == <<t, NatSub(cur, NatMulSmall(d, t))>>

DivideDigit(cur, d) ==
    DivideRemainder(cur, d,
        IF Cmp(cur, d) < 0 THEN 0 ELSE QuotientDigit(cur, d, LimbBits - 1, 0))

\* the quotient limb and the remainder of (rem * Base + limb) / d, for rem < d
DivideStep(rem, limb, d) == DivideDigit(Norm(<<limb>> \o rem), d)

\* schoolbook division of the limbs a[1..i], the higher ones having given the
\* quotient limbs q and left rem
RECURSIVE DivideFrom(_, _, _, _, _)
DivideNext(a, d, i, q, step) == DivideFrom(a, d, i - 1, <<step[1]>> \o q, step[2])
DivideFrom(a, d, i, q, rem) ==
    IF i = 0 THEN <<q, rem>>
    ELSE DivideNext(a, d, i, q, DivideStep(rem, a[i], d))

NormQuotient(qr) == <<Norm(qr[1]), qr[2]>>

\* <<floor(a / d), a mod d>> for d # 0
NatDivMod(a, d) == NormQuotient(DivideFrom(a, d, Len(a), <<>>, <<>>))

----------------------------------------------------------------------------
(* Python's float, an IEEE 754 double: sign * man * 2^exp with man zero or
   2^52 <= man < 2^53.  Every operation returns the double nearest to the
   exact result, a tie going to the even mantissa.  The values of this
   program are far from the overflow and underflow of the format. *)

Precision == 53

FloatZero == [sign |-> 1, man |-> <<>>, exp |-> 0]

\* Python computes the operands of an operation before the operation
Computed(v) == v = v

\* the mantissa m of at most Precision + 1 bits, brought to Precision bits
Renormalized(sign, m, e) ==
    IF BitLen(m) > Precision
    THEN [sign |-> sign, man |-> NatShr(m, 1), exp |-> e + 1]
    ELSE [sign |-> sign, man |-> m, exp |-> e]

\* q of Precision bits, rounded up or not
RoundedUp(sign, q, e, up) ==
    Renormalized(sign, IF up THEN NatAdd(q, <<1>>) ELSE q, e)

\* q1 is the exact value cut one bit below the mantissa's last bit: that bit
\* says whether the rest is at least one half, and below says whether
\* anything nonzero was cut below it; a tie goes to the even mantissa
RoundHalfEven(sign, q1, q, e, below) ==
    RoundedUp(sign, q, e, IsOdd(q1) /\ (below \/ IsOdd(q)))

CutToPrecision(sign, n, e, sticky, excess, q1) ==
    RoundHalfEven(sign, q1, NatShr(q1, 1), e + excess,
                  sticky \/ NatShl(q1, excess - 1) # n)

RoundExcess(sign, n, e, sticky, excess) ==
    IF excess <= 0
    THEN [sign |-> sign, man |-> NatShl(n, -excess), exp |-> e + excess]
    ELSE CutToPrecision(sign, n, e, sticky, excess, NatShr(n, excess - 1))

\* the double nearest to sign * (n + f) * 2^e, where 0 <= f < 1 and sticky
\* says f > 0
RoundToDouble(sign, n, e, sticky) ==
    CASE Computed(n) ->
    IF n = <<>> THEN FloatZero
    ELSE RoundExcess(sign, n, e, sticky, BitLen(n) - Precision)

\* float( n )
FloatOfInt(n) ==
    RoundToDouble(IF n < 0 THEN -1 ELSE 1, NatOf(IF n < 0 THEN -n ELSE n), 0, FALSE)

\* x * y
FloatMul(x, y) ==
    CASE Computed(x) /\ Computed(y) ->
    RoundToDouble(x.sign * y.sign, NatMul(x.man, y.man), x.exp + y.exp, FALSE)

\* the quotient of the mantissas is computed to GuardLimbs limbs
GuardLimbs == 4

RoundQuotient(sign, qr, e) == RoundToDouble(sign, qr[1], e, qr[2] # <<>>)

\* x / y for y # 0
FloatDiv(x, y) ==
    CASE Computed(x) /\ Computed(y) ->
    IF x.man = <<>> THEN FloatZero
    ELSE RoundQuotient(x.sign * y.sign,
                       NatDivMod(ShlLimbs(x.man, GuardLimbs), y.man),
                       x.exp - y.exp - GuardLimbs * LimbBits)

\* the sign and the magnitude of sx * a + sy * b, where c is Cmp(a, b)
SignedSum(sx, a, sy, b, c) ==
    IF sx = sy THEN <<sx, NatAdd(a, b)>>
    ELSE IF c = 0 THEN <<1, <<>>>>
    ELSE IF c > 0 THEN <<sx, NatSub(a, b)>>
    ELSE <<sy, NatSub(b, a)>>

RoundSigned(sm, e) == RoundToDouble(sm[1], sm[2], e, FALSE)

AddAligned(sx, a, sy, b, e) == RoundSigned(SignedSum(sx, a, sy, b, Cmp(a, b)), e)

\* x + y for the mantissas brought to the exponent e of the smaller
AddAt(x, y, e) ==
    AddAligned(x.sign, NatShl(x.man, x.exp - e), y.sign, NatShl(y.man, y.exp - e), e)

\* x + y
FloatAdd(x, y) ==
    CASE Computed(x) /\ Computed(y) ->
    IF x.man = <<>> THEN y
    ELSE IF y.man = <<>> THEN x
    ELSE AddAt(x, y, IF x.exp <= y.exp THEN x.exp ELSE y.exp)

\* int( x ), the C cast (long) x and the integer part of modf: toward zero
IntOfFloat(x) ==
    CASE Computed(x) ->
    IF x.man = <<>> THEN 0
    ELSE x.sign * IntOf(IF x.exp >= 0 THEN NatShl(x.man, x.exp) ELSE NatShr(x.man, -x.exp))

\* the fractional part of modf( x ): x less its integer part, which is exact
FracOfFloat(x) == FloatAdd(x, FloatOfInt(-IntOfFloat(x)))

\* 0.5
FloatHalf == [sign |-> 1, man |-> NatShl(<<1>>, Precision - 1), exp |-> -Precision]

SignOf(x) == IF x.man = <<>> THEN 0 ELSE x.sign

\* -1, 0 or 1 as |x| < 0.5, |x| = 0.5 or |x| > 0.5
CmpAbsToHalf(x) ==
    SignOf(FloatAdd([x EXCEPT !.sign = 1], [FloatHalf EXCEPT !.sign = -1]))

----------------------------------------------------------------------------
(* datetime.timedelta *)

us_per_second == 1000000

\* timedelta.total_seconds() of a timedelta of us microseconds
total_seconds(us) == FloatDiv(FloatOfInt(us), FloatOfInt(us_per_second))

\* round( leftover_us ), a tie going to the even microsecond: far is
\* CmpAbsToHalf( leftover_us ) and x_is_odd is the parity of the whole
\* microseconds counted so far
whole_us_of(leftover_us, x_is_odd, far) ==
    IF far < 0 THEN 0
    ELSE IF far > 0 THEN leftover_us.sign
    ELSE IF leftover_us.sign = 1 THEN x_is_odd ELSE -x_is_odd

\* y whole microseconds and the fraction leftover_us of one
timedelta_of_leftover(y, leftover_us) ==
    IF leftover_us.man = <<>> THEN y
    ELSE y + whole_us_of(leftover_us, y % 2, CmpAbsToHalf(leftover_us))

\* sum microseconds and the dnum microseconds of the fractional second
timedelta_of_dnum(sum, dnum) ==
    timedelta_of_leftover(sum + IntOfFloat(dnum), FracOfFloat(dnum))

\* sum microseconds and the fraction fracpart of a second
timedelta_of_parts(sum, fracpart) ==
    IF fracpart.man = <<>> THEN sum
    ELSE timedelta_of_dnum(sum, FloatMul(FloatOfInt(us_per_second), fracpart))

\* the number of microseconds of datetime.timedelta( seconds = x ) for a float
\* x: the integer part is converted exactly, the fractional part is
\* multiplied by 10**6 as a double, and what is left of that below one
\* microsecond is rounded to the nearest microsecond, a tie going to the even one
timedelta_of_seconds(x) ==
    CASE Computed(x) ->
    timedelta_of_parts(IntOfFloat(x) * us_per_second, FracOfFloat(x))

----------------------------------------------------------------------------
(* bar_from_cycle_and_length *)

\* lines 53-58 with upper_inc = True
datetimerange_closed(lower, upper) ==
    [lower |-> lower, upper |-> upper, lower_inc |-> TRUE, upper_inc |-> TRUE]

\* spans.datetimerange( lower, upper, lower_inc = True, upper_inc = False )
datetimerange(lower, upper) ==
    [lower |-> lower, upper |-> upper, lower_inc |-> TRUE, upper_inc |-> FALSE]

\* range( n ) as the sequence 0, 1, ..., n - 1, empty when n <= 0
range(n) == [j \in 1..n |-> j - 1]

\* lines 46-48 with the integer division 1 // bar_length that line 47 avoids
seconds_per_slot_of_floor_division(c, bar_length) ==
    FloatMul(total_seconds(c.end - c.start), FloatOfInt(1 \div bar_length))

\* lines 46-48
seconds_per_slot_of(c, bar_length) ==
    FloatMul(total_seconds(c.end - c.start),
             FloatDiv(FloatOfInt(1), FloatOfInt(bar_length)))

\* lines 53-58: the slot of index i
slot_of(c, seconds_per_slot, i) ==
    datetimerange(
        c.start + timedelta_of_seconds(FloatMul(FloatOfInt(i + 0), seconds_per_slot)),
        c.start + timedelta_of_seconds(FloatMul(FloatOfInt(i + 1), seconds_per_slot)))

\* lines 50-62, for the seconds_per_slot computed
bar_of(c, bar_length, seconds_per_slot) ==
    CASE Computed(seconds_per_slot) ->
    [ cycle |-> c,
      slots |-> [j \in 1..Len(range(bar_length)) |->
                    slot_of(c, seconds_per_slot, range(bar_length)[j])],
      slot_duration |-> timedelta_of_seconds(seconds_per_slot) ]

bar_from_cycle_and_length(c, bar_length) ==
    IF bar_length = 0
    THEN Raised("ZeroDivisionError")     \* 1.0 / bar_length
    ELSE Returned(bar_of(c, bar_length, seconds_per_slot_of(c, bar_length)))

----------------------------------------------------------------------------
(* bar_offset_from_bar_and_datetime *)

\* `dt in slot'
Contains(slot, dt) ==
    /\ IF slot.lower_inc THEN slot.lower <= dt ELSE slot.lower < dt
    /\ IF slot.upper_inc THEN dt <= slot.upper ELSE dt < slot.upper

\* the scan of lines 163-165 from slot index i (0-based) on
RECURSIVE scan_slots(_, _, _)
scan_slots(b, dt, i) ==
    IF i >= Len(b.slots)
    THEN Raised("ValueError")
    ELSE IF Contains(b.slots[i + 1], dt)
         THEN Returned(i)
         ELSE scan_slots(b, dt, i + 1)

\* lines 159-168 with `>=' for `==' in line 159
bar_offset_from_bar_and_datetime_past_end(b, dt) ==
    IF dt >= b.cycle.end
    THEN Returned(Len(b.slots))
    ELSE scan_slots(b, dt, 0)

bar_offset_from_bar_and_datetime(b, dt) ==
    IF dt = b.cycle.end
    THEN Returned(Len(b.slots))
    ELSE scan_slots(b, dt, 0)

----------------------------------------------------------------------------
(* gen_bar_chars and render *)

\* The terminal codes and the two glyphs: each is one symbol of the output
TERM_black_on_orange == <<"TERM.black_on_orange">>
TERM_orange == <<"TERM.orange">>
TERM_black_on_purple == <<"TERM.black_on_purple">>
TERM_purple == <<"TERM.purple">>
TERM_black_on_blue == <<"TERM.black_on_blue">>
TERM_blue == <<"TERM.blue">>
TERM_normal == <<"TERM.normal">>
CHAR_FULL == <<"CHAR_FULL">>
CHAR_EMPTY == <<"CHAR_EMPTY">>

\* lines 84-87 without the `+ 1' of line 86
time_label_of_one_left(dt_offset, time_label_text) ==
    IF TruthyStr(time_label_text)
    THEN IF dt_offset < Len(TheValue(time_label_text))
         THEN Some(<<TheValue(time_label_text), 0>>)
         ELSE Some(<<TheValue(time_label_text), dt_offset - Len(TheValue(time_label_text))>>)
    ELSE None

\* lines 84-87: the label text with the offset of its leftmost character
time_label_of(dt_offset, time_label_text) ==
    IF TruthyStr(time_label_text)
    THEN IF dt_offset < Len(TheValue(time_label_text))
         THEN Some(<<TheValue(time_label_text), 0>>)
         ELSE Some(<<TheValue(time_label_text), dt_offset - Len(TheValue(time_label_text)) + 1>>)
    ELSE None

\* lines 94-102 with `elif sunset_offset is None' on line 99
phase_of_none_test(b, slot_offset, sunset_offset) ==
    IF slot_offset = 0 THEN "twilight"
    ELSE IF TruthyInt(sunset_offset)
         THEN IF slot_offset < TheValue(sunset_offset) THEN "day"
              ELSE IF slot_offset = TheValue(sunset_offset) THEN "twilight"
              ELSE "night"
    ELSE IF sunset_offset = None
         THEN IF b.cycle.visible THEN "day" ELSE "night"
    ELSE "ValueError"

\* lines 94-102: the phase of a slot; sunset_offset is an Optional[BarOffset]
phase_of(b, slot_offset, sunset_offset) ==
    IF slot_offset = 0 THEN "twilight"
    ELSE IF TruthyInt(sunset_offset)
         THEN IF slot_offset < TheValue(sunset_offset) THEN "day"
              ELSE IF slot_offset = TheValue(sunset_offset) THEN "twilight"
              ELSE "night"
    ELSE IF ~TruthyInt(sunset_offset)
         THEN IF b.cycle.visible THEN "day" ELSE "night"
    ELSE "ValueError"

\* lines 105-106: the label character of a slot, if it has one
text_char_of(slot_offset, time_label) ==
    IF time_label # None
    THEN LET i == slot_offset - TheValue(time_label)[2]
         IN  IF 0 <= i /\ i < Len(TheValue(time_label)[1])
             THEN Some(TheValue(time_label)[1][i + 1])
             ELSE None
    ELSE None

\* line 109 with `>' for `>='
has_passed_of_after(dt_offset, slot_offset) == dt_offset > slot_offset

\* line 109
has_passed_of(dt_offset, slot_offset) == dt_offset >= slot_offset

\* lines 112-124 with the inverted style on every text char
color_of_inverted_text(phase, text_char, has_passed) ==
    CASE phase = "day"      /\ text_char # None -> Some(TERM_black_on_orange)
      [] phase = "day"      /\ text_char = None -> Some(TERM_orange)
      [] phase = "twilight" /\ text_char # None -> Some(TERM_black_on_purple)
      [] phase = "twilight" /\ text_char = None -> Some(TERM_purple)
      [] phase = "night"    /\ text_char # None -> Some(TERM_black_on_blue)
      [] phase = "night"    /\ text_char = None -> Some(TERM_blue)
      [] OTHER -> None

\* lines 112-124: the color code; a text char is one character, hence truthy
color_of(phase, text_char, has_passed) ==
    CASE phase = "day"      /\ text_char # None /\ has_passed  -> Some(TERM_black_on_orange)
      [] phase = "day"      /\ text_char # None /\ ~has_passed -> Some(TERM_orange)
      [] phase = "day"      /\ text_char = None /\ has_passed  -> Some(TERM_orange)
      [] phase = "day"      /\ text_char = None /\ ~has_passed -> Some(TERM_orange)
      [] phase = "twilight" /\ text_char # None /\ has_passed  -> Some(TERM_black_on_purple)
      [] phase = "twilight" /\ text_char # None /\ ~has_passed -> Some(TERM_purple)
      [] phase = "twilight" /\ text_char = None /\ has_passed  -> Some(TERM_purple)
      [] phase = "twilight" /\ text_char = None /\ ~has_passed -> Some(TERM_purple)
      [] phase = "night"    /\ text_char # None /\ has_passed  -> Some(TERM_black_on_blue)
      [] phase = "night"    /\ text_char # None /\ ~has_passed -> Some(TERM_blue)
      [] phase = "night"    /\ text_char = None /\ has_passed  -> Some(TERM_blue)
      [] phase = "night"    /\ text_char = None /\ ~has_passed -> Some(TERM_blue)
      [] OTHER -> None

\* lines 127-134 with the two glyphs exchanged
chars_of_glyphs_exchanged(text_char, has_passed) ==
    IF text_char # None THEN <<<<TheValue(text_char)>>, TERM_normal>>
    ELSE IF has_passed THEN <<CHAR_EMPTY>>
    ELSE <<CHAR_FULL>>

\* lines 127-134 with the reset after every character
chars_of_always_reset(text_char, has_passed) ==
    IF text_char # None THEN <<<<TheValue(text_char)>>, TERM_normal>>
    ELSE IF has_passed THEN <<CHAR_FULL, TERM_normal>>
    ELSE <<CHAR_EMPTY, TERM_normal>>

\* lines 127-134: the character and, after a text char, the reset
chars_of(text_char, has_passed) ==
    IF text_char # None THEN <<<<TheValue(text_char)>>, TERM_normal>>
    ELSE IF has_passed THEN <<CHAR_FULL>>
    ELSE <<CHAR_EMPTY>>

\* lines 91-134: what the loop yields from slot_offset on; `yielded' is what
\* it has yielded so far
RECURSIVE gen_bar_slots(_, _, _, _, _, _)
gen_bar_slots(b, dt_offset, sunset_offset, time_label, slot_offset, yielded) ==
    IF slot_offset >= Len(b.slots)
    THEN Returned(yielded)
    ELSE LET phase == phase_of(b, slot_offset, sunset_offset)
             text_char == text_char_of(slot_offset, time_label)
             has_passed == has_passed_of(dt_offset, slot_offset)
             color == color_of(phase, text_char, has_passed)
         IN  IF phase = "ValueError" THEN Raised("ValueError")
             ELSE IF color = None THEN Raised("ValueError")
             ELSE gen_bar_slots(b, dt_offset, sunset_offset, time_label, slot_offset + 1,
                                yielded \o <<TheValue(color)>> \o chars_of(text_char, has_passed))

\* the strings gen_bar_chars yields, in order
gen_bar_chars(b, dt_offset, time_label_text) ==
    LET sunset == IF b.cycle.sunset # None
                  THEN bar_offset_from_bar_and_datetime(b, TheValue(b.cycle.sunset))
                  ELSE Returned(None)
    IN  IF sunset.raised # ""
        THEN sunset
        ELSE gen_bar_slots(b, dt_offset,
                           IF b.cycle.sunset # None THEN Some(sunset.value) ELSE None,
                           time_label_of(dt_offset, time_label_text), 0, <<>>)

\* ''.join( strings )
RECURSIVE join(_)
join(strings) ==
    IF strings = <<>> THEN <<>> ELSE Head(strings) \o join(Tail(strings))

render(b, dt_offset, time_label_text) ==
    LET yielded == gen_bar_chars(b, dt_offset, time_label_text)
    IN  IF yielded.raised # "" THEN yielded ELSE Returned(join(yielded.value))

----------------------------------------------------------------------------
(* bar_offset_from_bar_and_percent *)

points_per_bar == 100

\* lines 179-180
points_per_char_of(b) ==
    FloatMul(FloatOfInt(points_per_bar),
             FloatDiv(FloatOfInt(1), FloatOfInt(Len(b.slots))))

\* lines 183-186, for the points_per_char computed
chars_to_offset(percentage, points_per_char) ==
    CASE Computed(points_per_char) ->
    IntOfFloat(FloatAdd(FloatDiv(FloatOfInt(percentage), points_per_char), FloatHalf))

bar_offset_from_bar_and_percent(b, percentage) ==
    IF Len(b.slots) = 0
    THEN Raised("ZeroDivisionError")     \* 1.0 / len(bar.slots)
    ELSE Returned(chars_to_offset(percentage, points_per_char_of(b)))

\* the memoized function: what the cache holds for a bar of >= 1 slots and a
\* percentage
cached_bar_offset_from_bar_and_percent(b, percentage) ==
    offset_cache[Len(b.slots)][percentage]

----------------------------------------------------------------------------
(* scale_from_bar *)

\* the steps of line 199 tried from the largest down
steps_descending == <<50, 33, 25, 20, 10>>

\* line 199
steps == <<10, 20, 25, 33, 50>>

\* line 231 without the `+1': range( 0, 100, step )
markers_of_half_open(step) == [k \in 1..((100 + step - 1) \div step) |-> (k - 1) * step]

\* range( 0, 100+1, step ) as a sequence
markers_of(step) == [k \in 1..((100 + 1 + step - 1) \div step) |-> (k - 1) * step]

Digits == <<"0", "1", "2", "3", "4", "5", "6", "7", "8", "9">>

\* str( n ) for an int n >= 0, as the sequence of its characters
RECURSIVE str(_)
str(n) == IF n < 10 THEN <<Digits[n + 1]>> ELSE str(n \div 10) \o <<Digits[(n % 10) + 1]>>

\* line 230 with one None less before the marker
marker_list_one_short(offset, marker) ==
    [j \in 1..(offset - 1) |-> None] \o [j \in 1..Len(str(marker)) |-> Some(str(marker)[j])]

\* line 230: ([None]*offset) + list(str(marker)); [None]*offset is empty for
\* offset <= 0
marker_list(offset, marker) ==
    [j \in 1..offset |-> None] \o [j \in 1..Len(str(marker)) |-> Some(str(marker)[j])]

RECURSIVE MaxLen(_)
MaxLen(lists) ==
    IF lists = <<>> THEN 0
    ELSE LET rest == MaxLen(Tail(lists))
         IN  IF Len(Head(lists)) >= rest THEN Len(Head(lists)) ELSE rest

\* itertools.zip_longest( *lists ): one tuple per position, None where a list
\* has ended
zip_longest(lists) ==
    [j \in 1..MaxLen(lists) |->
        [m \in 1..Len(lists) |-> IF j <= Len(lists[m]) THEN lists[m][j] ELSE None]]

\* line 195: a or b, for a and b each None or a character
or_2_arity(a, b) == IF a # None THEN a ELSE b

\* line 196: functools.reduce( or_2_arity, args, None ), from args[i] on
RECURSIVE reduce_or(_, _, _)
reduce_or(args, i, acc) ==
    IF i > Len(args) THEN acc ELSE reduce_or(args, i + 1, or_2_arity(acc, args[i]))

or_N_arity(args) == reduce_or(args, 1, None)

\* lines 227-234
candidate_scale_of(b, step) ==
    LET markers == markers_of(step)
        lists == [m \in 1..Len(markers) |->
                    marker_list(cached_bar_offset_from_bar_and_percent(b, markers[m]).value,
                                markers[m])]
        tuples == zip_longest(lists)
    IN  [j \in 1..Len(tuples) |->
            LET c == or_N_arity(tuples[j])
            IN  IF c # None THEN TheValue(c) ELSE " "]

\* str.split(): the maximal runs of non-whitespace characters, from s[i] on;
\* word is the run being read and words the runs read
RECURSIVE split_from(_, _, _, _)
split_from(s, i, word, words) ==
    IF i > Len(s) THEN IF word = <<>> THEN words ELSE Append(words, word)
    ELSE IF s[i] = " "
         THEN split_from(s, i + 1, <<>>, IF word = <<>> THEN words ELSE Append(words, word))
         ELSE split_from(s, i + 1, Append(word, s[i]), words)

split(s) == split_from(s, 1, <<>>, <<>>)

\* the test of line 247 with `<=' for `=='
legible_at_most(separated_markers, step) ==
    Len(separated_markers) <= Len(markers_of(step))

\* line 247
legible(separated_markers, step) ==
    Len(separated_markers) = Len(markers_of(step))

\* lines 199-248 from steps[k] on; falling off the loop returns None
RECURSIVE scale_from_steps(_, _)
scale_from_steps(b, k) ==
    IF k > Len(steps) THEN Returned(None)
    ELSE LET candidate_scale == candidate_scale_of(b, steps[k])
             separated_markers == split(candidate_scale)
         IN  IF legible(separated_markers, steps[k])
             THEN Returned(Some(candidate_scale))
             ELSE scale_from_steps(b, k + 1)

scale_from_bar(b) ==
    IF Len(b.slots) = 0
    THEN Raised("ZeroDivisionError")     \* the first bar_offset_from_bar_and_percent
    ELSE scale_from_steps(b, 1)

----------------------------------------------------------------------------
(* The calls on the bars of a frame: the bar of a cycle, the offset of an
   instant, the rendered bar *)

Lengths == (-MaxNegLength)..MaxLength

Instants == 0..(MaxStart + MaxSpan + 1)

\* the calls of one frame: no loop runs and no handler is registered
OneFrame == pc = "draw_frame" /\ local_now = None /\ handler = None

Init ==
    /\ OneFrame
    /\ cycle \in { c \in Cycles : ValidCycle(c) }
    /\ bar_cache = [n \in Lengths |-> bar_from_cycle_and_length(cycle, n)]
    /\ offset_cache = <<>>
    /\ \E n \in 1..MaxLength :
        /\ call = [fn |-> "bar_from_cycle_and_length", bar_length |-> n]
        /\ ret = bar_cache[n]
        /\ bar = ret.value

\* bar = bar_from_cycle_and_length( cycle, n ); the assignment does not happen
\* when the call raises
CallBarFromCycleAndLength ==
    \E n \in DOMAIN bar_cache :
        /\ call' = [fn |-> "bar_from_cycle_and_length", bar_length |-> n]
        /\ ret' = bar_cache[n]
        /\ bar' = IF ret'.raised = "" THEN ret'.value ELSE bar
        /\ UNCHANGED <<cycle, bar_cache, offset_cache, pc, local_now, handler>>

CallBarOffsetFromBarAndDatetime ==
    \E dt \in Instants :
        /\ call' = [fn |-> "bar_offset_from_bar_and_datetime", dt |-> dt]
        /\ ret' = bar_offset_from_bar_and_datetime(bar, dt)
        /\ UNCHANGED <<cycle, bar, bar_cache, offset_cache, pc, local_now, handler>>

\* the characters of the labels: label text number L is "12..." of L characters
LabelChar(i) == Digits[(i % 10) + 1]

LabelText(L) == [i \in 1..L |-> LabelChar(i)]

\* no label, the empty string, and the texts of 1..MaxLabelLen characters
Labels == {None} \cup { Some(LabelText(L)) : L \in 0..MaxLabelLen }

CallRender ==
    \E dt_offset \in 0..Len(bar.slots), time_label_text \in Labels :
        /\ call' = [fn |-> "render", dt_offset |-> dt_offset,
                                     time_label_text |-> time_label_text]
        /\ ret' = render(bar, dt_offset, time_label_text)
        /\ UNCHANGED <<cycle, bar, bar_cache, offset_cache, pc, local_now, handler>>

Next ==
    \/ CallBarFromCycleAndLength
    \/ CallBarOffsetFromBarAndDatetime
    \/ CallRender

Spec == Init /\ [][Next]_vars

----------------------------------------------------------------------------
(* The calls on the scale of a frame: the bar of a terminal of 1 ..
   MaxScaleLength columns, the offset of a percentage, the scale *)

ScaleLengths == 1..MaxScaleLength

\* the markers of every step, and percentages on both sides of 0..100
Percentages ==
    UNION { { markers_of(steps[k])[m] : m \in 1..Len(markers_of(steps[k])) } :
            k \in 1..Len(steps) }
      \cup ((-MaxOutside)..(-1)) \cup (101..(100 + MaxOutside))

\* a cycle in which a slot of the longest bar lasts MaxSpan
ScaleCycle ==
    [start |-> MaxStart, end |-> MaxStart + MaxSpan * MaxScaleLength,
     sunset |-> None, visible |-> TRUE]

InitScale ==
    /\ OneFrame
    /\ cycle = ScaleCycle
    /\ bar_cache = [n \in ScaleLengths |-> bar_from_cycle_and_length(cycle, n)]
    /\ offset_cache =
          [n \in ScaleLengths |->
              [p \in Percentages |-> bar_offset_from_bar_and_percent(bar_cache[n].value, p)]]
    /\ \E n \in ScaleLengths :
        /\ call = [fn |-> "bar_from_cycle_and_length", bar_length |-> n]
        /\ ret = bar_cache[n]
        /\ bar = ret.value

CallBarOffsetFromBarAndPercent ==
    \E percentage \in Percentages :
        /\ call' = [fn |-> "bar_offset_from_bar_and_percent", percentage |-> percentage]
        /\ ret' = cached_bar_offset_from_bar_and_percent(bar, percentage)
        /\ UNCHANGED <<cycle, bar, bar_cache, offset_cache, pc, local_now, handler>>

CallScaleFromBar ==
    /\ call' = [fn |-> "scale_from_bar"]
    /\ ret' = scale_from_bar(bar)
    /\ UNCHANGED <<cycle, bar, bar_cache, offset_cache, pc, local_now, handler>>

NextScale ==
    \/ CallBarFromCycleAndLength
    \/ CallBarOffsetFromBarAndPercent
    \/ CallScaleFromBar

SpecScale == InitScale /\ [][NextScale]_vars

----------------------------------------------------------------------------
(* The redraw loops of main and simulate_time, and the SIGWINCH handler that
   register_redraw_on_resize installs.  pc is the line of clock.py the loop
   is at; the handler runs between any two steps of the loop. *)

LoopInstants == 0..MaxTime

\* the cycles Cycle.spannning_dt may return: each lasts at least one instant
\* for each slot of the widest bar
LoopCycles ==
    { [start |-> s, end |-> s + d, sunset |-> None, visible |-> TRUE] :
        s \in LoopInstants, d \in MaxWidth..(MaxWidth + 1) }

\* Cycle.spannning_dt( dt, LAT, LON ): a cycle with start <= dt < end
spannning_dt(dt) == { c \in LoopCycles : c.start <= dt /\ dt < c.end }

\* lines 87-91 without the test of line 90
cycle_is_stale_past_end_only(c, now) ==
    \/ c = None
    \/ now >= TheValue(c).end

\* lines 87-91 and 148-152: the held cycle does not span local_now
cycle_is_stale(c, now) ==
    \/ c = None
    \/ now >= TheValue(c).end
    \/ now < TheValue(c).start

\* the widths the terminal may have when a frame is drawn, as bar lengths
\* (line 233: bar_end_x - bar_begin_x + 1)
FrameLengths == 1..MaxWidth

\* draw_frame( c, now ), lines 233-235: the bar of the terminal's width and
\* the offset of now on it; `by' tells the loop from the handler
draw_frame(c, now, by) ==
    \E n \in FrameLengths :
        /\ call' = [fn |-> "draw_frame", cycle |-> c, now |-> now, by |-> by,
                                         bar_length |-> n]
        /\ bar' = bar_cache[c][n].value
        /\ ret' = bar_offset_from_bar_and_datetime(bar_cache[c][n].value, now)

START == 0
STOP == MaxTime
STEP == SimStep

InitLoop ==
    /\ pc \in {"main:79", "simulate_time:144"}
    /\ cycle = None
    /\ local_now = None
    /\ handler = None
    /\ call = [fn |-> "none"]
    /\ ret = Returned(None)
    /\ bar = None
    /\ bar_cache = [c \in LoopCycles |->
                       [n \in FrameLengths |-> bar_from_cycle_and_length(c, n)]]
    /\ offset_cache = <<>>

\* line 79: local_now = datetime.datetime.now(); the wall clock may have been
\* set back
MainNow ==
    /\ pc = "main:79"
    /\ \E t \in LoopInstants : local_now' = Some(t)
    /\ pc' = "main:87"
    /\ UNCHANGED <<cycle, bar, call, ret, bar_cache, offset_cache, handler>>

\* lines 87-92 and 148-154
RenewCycle(at, then) ==
    /\ pc = at
    /\ IF cycle_is_stale(cycle, TheValue(local_now))
       THEN \E c \in spannning_dt(TheValue(local_now)) : cycle' = Some(c)
       ELSE cycle' = cycle
    /\ pc' = then
    /\ UNCHANGED <<bar, call, ret, bar_cache, offset_cache, local_now, handler>>

\* lines 95 and 157: draw_frame( cycle, local_now )
DrawFrame(at, then) ==
    /\ pc = at
    /\ draw_frame(TheValue(cycle), TheValue(local_now), "loop")
    /\ pc' = then
    /\ UNCHANGED <<cycle, bar_cache, offset_cache, local_now, handler>>

\* lines 98 and 160, line 190: the handler holds cycle and local_now
RegisterRedrawOnResize(at, then) ==
    /\ pc = at
    /\ handler' = Some(<<TheValue(cycle), TheValue(local_now)>>)
    /\ pc' = then
    /\ UNCHANGED <<cycle, bar, call, ret, bar_cache, offset_cache, local_now>>

\* lines 101 and 163: time.sleep
Sleep(at, then) ==
    /\ pc = at
    /\ pc' = then
    /\ UNCHANGED <<cycle, bar, call, ret, bar_cache, offset_cache, local_now, handler>>

MainRenewCycle == RenewCycle("main:87", "main:95")
MainDrawFrame == DrawFrame("main:95", "main:98")
MainRegister == RegisterRedrawOnResize("main:98", "main:101")
MainSleep == Sleep("main:101", "main:79")

\* line 144: local_now = START
SimStart ==
    /\ pc = "simulate_time:144"
    /\ local_now' = Some(START)
    /\ pc' = "simulate_time:147"
    /\ UNCHANGED <<cycle, bar, call, ret, bar_cache, offset_cache, handler>>

\* line 147: while local_now <= STOP
SimWhile ==
    /\ pc = "simulate_time:147"
    /\ pc' = IF TheValue(local_now) <= STOP
             THEN "simulate_time:148" ELSE "simulate_time:144"
    /\ UNCHANGED <<cycle, bar, call, ret, bar_cache, offset_cache, local_now, handler>>

SimRenewCycle == RenewCycle("simulate_time:148", "simulate_time:157")
SimDrawFrame == DrawFrame("simulate_time:157", "simulate_time:160")
SimRegister == RegisterRedrawOnResize("simulate_time:160", "simulate_time:163")
SimSleep == Sleep("simulate_time:163", "simulate_time:166")

\* line 166: local_now += STEP
SimAdvance ==
    /\ pc = "simulate_time:166"
    /\ local_now' = Some(TheValue(local_now) + STEP)
    /\ pc' = "simulate_time:147"
    /\ UNCHANGED <<cycle, bar, call, ret, bar_cache, offset_cache, handler>>

\* SIGWINCH: the registered handler draws a frame from the pair it holds;
\* before the first registration the signal is ignored
Resize ==
    /\ handler # None
    /\ draw_frame(TheValue(handler)[1], TheValue(handler)[2], "handler")
    /\ UNCHANGED <<cycle, bar_cache, offset_cache, pc, local_now, handler>>

NextLoop ==
    \/ MainNow
    \/ MainRenewCycle
    \/ MainDrawFrame
    \/ MainRegister
    \/ MainSleep
    \/ SimStart
    \/ SimWhile
    \/ SimRenewCycle
    \/ SimDrawFrame
    \/ SimRegister
    \/ SimSleep
    \/ SimAdvance
    \/ Resize

SpecLoop == InitLoop /\ [][NextLoop]_vars

----------------------------------------------------------------------------
(* What a call's outcome shows *)

IsCall(fn) == call.fn = fn

\* the last call was bar_from_cycle_and_length( cycle, n ) for some n in lens
Built(lens) == IsCall("bar_from_cycle_and_length") /\ call.bar_length \in lens

\* the last call was bar_offset_from_bar_and_datetime on a bar of >= 1 slots
AskedOffsetOfInstant == IsCall("bar_offset_from_bar_and_datetime") /\ Len(bar.slots) >= 1

\* the last call was render on a bar of >= 1 slots
Rendered == IsCall("render") /\ Len(bar.slots) >= 1

ColorCodes ==
    { TERM_black_on_orange[1], TERM_orange[1], TERM_black_on_purple[1],
      TERM_purple[1], TERM_black_on_blue[1], TERM_blue[1] }

IsColorCode(sym) == sym \in ColorCodes
IsCharacter(sym) == sym \notin ColorCodes /\ sym # TERM_normal[1]

\* the color codes of a rendered string, one per column, and its characters
ColorsOf(rendered) == SelectSeq(rendered, IsColorCode)
ColumnsOf(rendered) == SelectSeq(rendered, IsCharacter)

PhaseOfColor(sym) ==
    IF sym \in {TERM_black_on_orange[1], TERM_orange[1]} THEN "day"
    ELSE IF sym \in {TERM_black_on_purple[1], TERM_purple[1]} THEN "twilight"
    ELSE "night"

Max(a, b) == IF a >= b THEN a ELSE b

\* the last call was render without a label (None or the empty string)
RenderedWithoutLabel ==
    Rendered /\ ret.raised = "" /\ ~TruthyStr(call.time_label_text)

\* the column where the label of the last render starts, and whether column i
\* is one of the label's
LabelStartColumn ==
    Max(0, call.dt_offset - Len(TheValue(call.time_label_text)) + 1)

CarriesLabelChar(i) ==
    /\ TruthyStr(call.time_label_text)
    /\ LabelStartColumn <= i
    /\ i < LabelStartColumn + Len(TheValue(call.time_label_text))

\* the label character of column i, for a column that carries one
LabelCharOf(i) == TheValue(call.time_label_text)[i - LabelStartColumn + 1]

InvertedCodes ==
    { TERM_black_on_orange[1], TERM_black_on_purple[1], TERM_black_on_blue[1] }

\* the sunset's offset as gen_bar_chars computes it on line 78
SunsetOffsetOf(b) ==
    IF b.cycle.sunset # None
    THEN Some(bar_offset_from_bar_and_datetime(b, TheValue(b.cycle.sunset)).value)
    ELSE None

\* the tokens gen_bar_chars yields for the arguments of the last render
TokensOfRender == gen_bar_chars(bar, call.dt_offset, call.time_label_text).value

\* the columns of the bar that carry a label character, and how many of them
\* are left of column i
LabelColumns == { j \in 0..(Len(bar.slots) - 1) : CarriesLabelChar(j) }

LabelColumnsBefore(i) == Cardinality({ j \in LabelColumns : j < i })

\* where the tokens of column i start in a stream of one style token and one
\* character token for each column and one reset for each label character
TokenIndexOf(i) == 2 * i + LabelColumnsBefore(i) + 1

StyleTokens ==
    { TERM_black_on_orange, TERM_orange, TERM_black_on_purple,
      TERM_purple, TERM_black_on_blue, TERM_blue }

\* the columns (from 0) of a rendered string that carry the filled glyph
FilledColumns(rendered) ==
    { i \in 0..(Len(ColumnsOf(rendered)) - 1) :
        ColumnsOf(rendered)[i + 1] = CHAR_FULL[1] }

\* the last call was bar_offset_from_bar_and_percent on a bar of >= 1 slots
AskedOffsetOfPercent == IsCall("bar_offset_from_bar_and_percent") /\ Len(bar.slots) >= 1

\* the last call was scale_from_bar on a bar of >= 1 slots
AskedScale == IsCall("scale_from_bar") /\ Len(bar.slots) >= 1

\* the last call was scale_from_bar and it returned a string
ScaleReturned == AskedScale /\ ret.raised = "" /\ ret.value # None

\* the candidate steps as the claims name them
CandidateSteps == {10, 20, 25, 33, 50}

\* the candidate steps whose candidate line splits into as many tokens as
\* the step has markers
LegibleSteps ==
    { step \in CandidateSteps :
        Len(split(candidate_scale_of(bar, step))) = Len(markers_of(step)) }

Min(S) == CHOOSE x \in S : \A y \in S : x <= y

\* the multiples of step in 0..100
MultiplesOf(step) == { m \in 0..100 : m % step = 0 }

\* the text of marker m stands in the scale from column offset(m) on
MarkerStandsAt(scale, m) ==
    LET offset == cached_bar_offset_from_bar_and_percent(bar, m).value
    IN  /\ offset + Len(str(m)) <= Len(scale)
        /\ \A j \in 1..Len(str(m)) : scale[offset + j] = str(m)[j]

----------------------------------------------------------------------------
(* C1: for every cycle with end > start and every length >= 1,
   bar_from_cycle_and_length returns a Bar with exactly `length' slots, the
   first starting at cycle.start, the last ending at cycle.end, each slot
   ending where the next starts and after it starts itself. *)
C1_SlotsPartitionCycle ==
    Built(1..MaxLength) =>
        /\ ret.raised = ""
        /\ Len(ret.value.slots) = call.bar_length
        /\ ret.value.slots[1].lower = cycle.start
        /\ ret.value.slots[call.bar_length].upper = cycle.end
        /\ \A j \in 1..(call.bar_length - 1) :
              ret.value.slots[j].upper = ret.value.slots[j + 1].lower
        /\ \A j \in 1..call.bar_length :
              /\ ret.value.slots[j].lower < ret.value.slots[j].upper
              /\ ret.value.slots[j].lower_inc /\ ~ret.value.slots[j].upper_inc

\* a bar whose length does not divide the cycle's duration
C1_Witness ==
    /\ Built({4})
    /\ cycle.end - cycle.start = 6
    /\ ret.raised = ""
    /\ ret.value.slots[4].upper = cycle.end
    /\ ret.value.slots[2].upper - ret.value.slots[2].lower
         # ret.value.slots[1].upper - ret.value.slots[1].lower

(* C2: on a bar of N >= 1 slots, bar_offset_from_bar_and_datetime returns i
   for every instant t with slots[i].lower <= t < slots[i].upper, returns N
   for t = cycle.end, and for every t in [cycle.start, cycle.end] returns a
   value in 0..N that is N only for t = cycle.end. *)
C2_OffsetIsSlotIndex ==
    AskedOffsetOfInstant =>
        /\ \A i \in 0..(Len(bar.slots) - 1) :
              (bar.slots[i + 1].lower <= call.dt /\ call.dt < bar.slots[i + 1].upper)
                  => (ret.raised = "" /\ ret.value = i)
        /\ call.dt = bar.cycle.end => (ret.raised = "" /\ ret.value = Len(bar.slots))
        /\ (bar.cycle.start <= call.dt /\ call.dt <= bar.cycle.end) =>
              /\ ret.raised = ""
              /\ ret.value \in 0..Len(bar.slots)
              /\ ret.value = Len(bar.slots) <=> call.dt = bar.cycle.end

\* an instant exactly on the lower bound of a slot other than the first
C2_Witness ==
    /\ AskedOffsetOfInstant
    /\ Len(bar.slots) >= 3
    /\ call.dt = bar.slots[3].lower
    /\ bar.slots[3].lower < bar.slots[3].upper
    /\ ret.raised = ""
    /\ ret.value = 2

(* C3: the phase gen_bar_chars uses for slot i is twilight when i = 0;
   otherwise, when the cycle has a sunset, it is day, twilight or night as i
   is below, at or above the sunset's offset, whatever that offset (0
   included) and whatever cycle.visible; otherwise it is day if cycle.visible
   and night if not. *)
C3_PhaseAsSpecified ==
    (Rendered /\ ret.raised = "") =>
        \A i \in 0..(Len(bar.slots) - 1) :
            PhaseOfColor(ColorsOf(ret.value)[i + 1]) =
                IF i = 0 THEN "twilight"
                ELSE IF bar.cycle.sunset # None
                     THEN LET sunsetOffset ==
                                  bar_offset_from_bar_and_datetime(
                                      bar, TheValue(bar.cycle.sunset)).value
                          IN  IF i < sunsetOffset THEN "day"
                              ELSE IF i = sunsetOffset THEN "twilight"
                              ELSE "night"
                     ELSE IF bar.cycle.visible THEN "day" ELSE "night"

(* C4 as stated: for every nowOffset in 0..N and every non-empty label of L
   characters, if L <= nowOffset + 1 the character emitted at column
   nowOffset is the label's last character, and if L > nowOffset + 1 the
   character emitted at column 0 is the label's first character. *)
C4_LabelEndsAtNow ==
    (Rendered /\ ret.raised = "" /\ TruthyStr(call.time_label_text)) =>
        LET label == TheValue(call.time_label_text)
            L == Len(label)
            columns == ColumnsOf(ret.value)
        IN  /\ L <= call.dt_offset + 1 =>
                  /\ call.dt_offset + 1 <= Len(columns)
                  /\ columns[call.dt_offset + 1] = label[L]
            /\ L > call.dt_offset + 1 => columns[1] = label[1]

(* C4 as amended: the label starts at column max(0, nowOffset - L + 1) and
   column i of the bar (0 <= i < N) carries label[i - start] exactly when
   0 <= i - start < L, a glyph otherwise; so the label's first character is at
   column 0 when L > nowOffset + 1, and its last character is at column
   nowOffset when L <= nowOffset + 1 and nowOffset < N. *)
C4_LabelPlacement ==
    (Rendered /\ ret.raised = "" /\ TruthyStr(call.time_label_text)) =>
        LET label == TheValue(call.time_label_text)
            L == Len(label)
            columns == ColumnsOf(ret.value)
            start == Max(0, call.dt_offset - L + 1)
        IN  /\ Len(columns) = Len(bar.slots)
            /\ \A i \in 0..(Len(bar.slots) - 1) :
                  IF 0 <= i - start /\ i - start < L
                  THEN columns[i + 1] = label[i - start + 1]
                  ELSE columns[i + 1] \in {CHAR_FULL[1], CHAR_EMPTY[1]}
            /\ L > call.dt_offset + 1 => columns[1] = label[1]
            /\ (L <= call.dt_offset + 1 /\ call.dt_offset < Len(bar.slots)) =>
                  columns[call.dt_offset + 1] = label[L]

\* a label that fits before now, and one that does not
C4_Witness ==
    /\ Rendered
    /\ ret.raised = ""
    /\ Len(bar.slots) = 5
    /\ call.dt_offset = 3
    /\ call.time_label_text = Some(LabelText(2))
    /\ ColumnsOf(ret.value)[3] = LabelChar(1)
    /\ ColumnsOf(ret.value)[4] = LabelChar(2)

(* C5: whenever scale_from_bar returns a string on a bar of N >= 1 slots,
   that string is the candidate line of one of the steps, splitting it on
   whitespace yields exactly as many tokens as range(0, 101, step) has
   markers, the k-th token is the decimal text of the k-th marker, and each
   marker starts more than one column after the previous one ends. *)
C5_TokensAreTheMarkers ==
    ScaleReturned =>
        \E step \in CandidateSteps :
            LET tokens == split(TheValue(ret.value))
                count == (100 \div step) + 1
                offset(k) == cached_bar_offset_from_bar_and_percent(bar, (k - 1) * step).value
            IN  /\ TheValue(ret.value) = candidate_scale_of(bar, step)
                /\ Len(tokens) = count
                /\ \A k \in 1..count : tokens[k] = str((k - 1) * step)
                /\ \A k \in 1..(count - 1) :
                      offset(k) + Len(str((k - 1) * step)) < offset(k + 1)

\* the scale of step 10, the eleven markers 0, 10, ..., 100
C5_Witness ==
    /\ ScaleReturned
    /\ Len(split(TheValue(ret.value))) = 11
    /\ split(TheValue(ret.value))[2] = <<"1", "0">>
    /\ split(TheValue(ret.value))[11] = <<"1", "0", "0">>

(* C6: on a bar of N >= 1 slots scale_from_bar returns the candidate line of
   the smallest step of 10, 20, 25, 33, 50 whose candidate line is legible,
   and returns None exactly when no step is legible, which is the case for
   N = 5. *)
C6_SmallestLegibleStep ==
    AskedScale =>
        /\ ret.raised = ""
        /\ IF LegibleSteps = {}
           THEN ret.value = None
           ELSE ret.value = Some(candidate_scale_of(bar, Min(LegibleSteps)))
        /\ Len(bar.slots) = 5 => ret.value = None

\* a bar on which steps 10 and 20 are not legible and 25, 33 and 50 are
C6_Witness ==
    /\ AskedScale
    /\ LegibleSteps = {25, 33, 50}
    /\ ret.raised = ""
    /\ ret.value = Some(candidate_scale_of(bar, 25))

(* C7 as stated: whenever scale_from_bar returns a string on a bar of N >= 1
   slots, the string has at most N characters. *)
C7_ScaleWithinBar ==
    ScaleReturned => Len(TheValue(ret.value)) <= Len(bar.slots)

(* C7 as amended: whenever scale_from_bar returns a string on a bar of N >= 1
   slots, the string has N characters plus those of its last marker: N + 3
   when the last marker is 100 (steps 10, 20, 25, 50) and N + 2 when it is 99
   (step 33); the last marker starts at column N, right after the bar. *)
C7_ScaleEndsAfterBar ==
    ScaleReturned =>
        LET scale == TheValue(ret.value)
            tokens == split(scale)
            last == tokens[Len(tokens)]
        IN  /\ last \in {<<"1", "0", "0">>, <<"9", "9">>}
            /\ Len(scale) = Len(bar.slots) + Len(last)
            /\ \A j \in 1..Len(last) : scale[Len(bar.slots) + j] = last[j]
            /\ scale[Len(bar.slots)] = " "

\* the scale of step 33 on a bar of 9 slots: "0  33 66 99"
C7_Witness ==
    /\ ScaleReturned
    /\ Len(bar.slots) = 9
    /\ Len(TheValue(ret.value)) = 11
    /\ split(TheValue(ret.value))[4] = <<"9", "9">>

(* C8: on a bar of N >= 1 slots, for every percent p inside or outside
   0..100, bar_offset_from_bar_and_percent returns floor(p * N / 100 + 0.5),
   which is floor((2 * p * N + 100) / 200). *)
C8_RoundHalfUp ==
    AskedOffsetOfPercent =>
        /\ ret.raised = ""
        /\ ret.value = (2 * call.percentage * Len(bar.slots) + 100) \div 200

(* C9: for every length <= 0, bar_from_cycle_and_length fails with an error
   and returns no Bar; it never returns a Bar with no slots. *)
C9_NonPositiveLengthRejected ==
    /\ Built((-MaxNegLength)..0) => ret.raised # ""
    /\ (IsCall("bar_from_cycle_and_length") /\ ret.raised = "") => Len(ret.value.slots) > 0

(* C10: on a bar built with length >= 1, bar_offset_from_bar_and_datetime
   fails with the domain error for every instant t < cycle.start and every
   t > cycle.end, and does not fail for any t in [cycle.start, cycle.end]. *)
C10_DomainErrorOutsideCycle ==
    AskedOffsetOfInstant =>
        /\ (call.dt < bar.cycle.start \/ call.dt > bar.cycle.end) => ret.raised = "ValueError"
        /\ (bar.cycle.start <= call.dt /\ call.dt <= bar.cycle.end) => ret.raised = ""

\* an instant past the cycle's end, refused
C10_Witness ==
    /\ AskedOffsetOfInstant
    /\ call.dt > bar.cycle.end
    /\ ret.raised = "ValueError"

(* C11: without a label, the columns render fills for nowOffset = k are
   exactly the columns i of the bar with i <= k, and when a render for
   nowOffset = k is followed by a render of the same bar for nowOffset = k + 1,
   the columns filled by the first are among those filled by the second. *)
C11_MonotonicFill ==
    [][ /\ RenderedWithoutLabel' =>
              FilledColumns(ret'.value) =
                  { i \in 0..(Len(bar'.slots) - 1) : i <= call'.dt_offset }
        /\ ( /\ RenderedWithoutLabel
             /\ RenderedWithoutLabel'
             /\ bar' = bar
             /\ call'.dt_offset = call.dt_offset + 1 ) =>
              FilledColumns(ret.value) \subseteq FilledColumns(ret'.value)
      ]_vars

\* a bar of 5 slots rendered at offset 2: columns 0, 1, 2 filled, 3, 4 empty
C11_Witness ==
    /\ RenderedWithoutLabel
    /\ Len(bar.slots) = 5
    /\ call.dt_offset = 2
    /\ FilledColumns(ret.value) = {0, 1, 2}
    /\ ColumnsOf(ret.value)[4] = CHAR_EMPTY[1]

(* C12: for every slot i of every render, the style token is one of the three
   inverted styles exactly when the slot carries a label character and
   nowOffset >= i, one of the three plain styles otherwise, and its colour is
   that of the phase gen_bar_chars gives the slot: orange for day, purple for
   twilight, blue for night. *)
C12_StyleOfSlot ==
    (Rendered /\ ret.raised = "") =>
        /\ Len(ColorsOf(ret.value)) = Len(bar.slots)
        /\ \A i \in 0..(Len(bar.slots) - 1) :
              LET style == ColorsOf(ret.value)[i + 1]
                  phase == phase_of(bar, i, SunsetOffsetOf(bar))
              IN  /\ style \in InvertedCodes <=>
                        (CarriesLabelChar(i) /\ call.dt_offset >= i)
                  /\ phase = "day" =>
                        style \in {TERM_orange[1], TERM_black_on_orange[1]}
                  /\ phase = "twilight" =>
                        style \in {TERM_purple[1], TERM_black_on_purple[1]}
                  /\ phase = "night" =>
                        style \in {TERM_blue[1], TERM_black_on_blue[1]}
                  /\ phase \in {"day", "twilight", "night"}

\* a label that is cut by now: the label of 4 characters rendered at offset
\* 1 covers columns 0..3, inverted on columns 0 and 1, plain on 2 and 3
C12_Witness ==
    /\ Rendered
    /\ ret.raised = ""
    /\ Len(bar.slots) = 5
    /\ call.dt_offset = 1
    /\ call.time_label_text = Some(LabelText(4))
    /\ ColorsOf(ret.value)[2] \in InvertedCodes
    /\ ColorsOf(ret.value)[3] \notin InvertedCodes
    /\ ColumnsOf(ret.value)[3] = LabelChar(3)

(* C13: for every slot i of every render, with or without a label, the
   character emitted is the label's character for that column when the slot
   carries one; otherwise the filled glyph when nowOffset >= i and the empty
   glyph when nowOffset < i. *)
C13_CharacterOfSlot ==
    (Rendered /\ ret.raised = "") =>
        /\ Len(ColumnsOf(ret.value)) = Len(bar.slots)
        /\ \A i \in 0..(Len(bar.slots) - 1) :
              ColumnsOf(ret.value)[i + 1] =
                  IF CarriesLabelChar(i) THEN LabelCharOf(i)
                  ELSE IF call.dt_offset >= i THEN CHAR_FULL[1]
                  ELSE CHAR_EMPTY[1]

\* the three kinds of character in one bar: filled, label, label, empty, empty
C13_Witness ==
    /\ Rendered
    /\ ret.raised = ""
    /\ Len(bar.slots) = 5
    /\ call.dt_offset = 2
    /\ call.time_label_text = Some(LabelText(2))
    /\ ColumnsOf(ret.value) =
          <<CHAR_FULL[1], LabelChar(1), LabelChar(2), CHAR_EMPTY[1], CHAR_EMPTY[1]>>

(* C14: the stream of gen_bar_chars holds, for the slots 0 .. length-1 in
   this order, one style token, then one character token, then the reset
   token if and only if the character is a label character; it has
   2 * length tokens plus one for each label character placed in the bar. *)
C14_TokenStream ==
    (Rendered /\ ret.raised = "") =>
        LET tokens == TokensOfRender
        IN  /\ ret.value = join(tokens)
            /\ Len(tokens) = 2 * Len(bar.slots) + Cardinality(LabelColumns)
            /\ \A i \in 0..(Len(bar.slots) - 1) :
                  LET at == TokenIndexOf(i)
                  IN  /\ tokens[at] \in StyleTokens
                      /\ tokens[at + 1] = <<ColumnsOf(ret.value)[i + 1]>>
                      /\ IF CarriesLabelChar(i)
                         THEN /\ tokens[at + 1] = <<LabelCharOf(i)>>
                              /\ tokens[at + 2] = TERM_normal
                         ELSE /\ tokens[at + 1] \in {CHAR_FULL, CHAR_EMPTY}
                              /\ TokenIndexOf(i + 1) = at + 2

\* a label of 2 characters inside a bar of 4 slots: 2 * 4 + 2 tokens, a reset
\* after each of the two label characters and nowhere else
C14_Witness ==
    /\ Rendered
    /\ ret.raised = ""
    /\ Len(bar.slots) = 4
    /\ call.dt_offset = 2
    /\ call.time_label_text = Some(LabelText(2))
    /\ Len(TokensOfRender) = 10
    /\ TokensOfRender[5] = TERM_normal
    /\ TokensOfRender[8] = TERM_normal
    /\ TokensOfRender[9] \in StyleTokens
    /\ TokensOfRender[10] = CHAR_EMPTY

(* C16: for every bar, every nowOffset and every label, present or absent,
   render does not raise: every slot gets one of the three phases, and the
   phase, the presence of a label character and has_passed of every slot
   select a row of the table of color codes. *)
C16_ErrorBranchesUnreachable ==
    Rendered =>
        /\ ret.raised = ""
        /\ \A i \in 0..(Len(bar.slots) - 1) :
              /\ phase_of(bar, i, SunsetOffsetOf(bar)) \in {"day", "twilight", "night"}
              /\ color_of(phase_of(bar, i, SunsetOffsetOf(bar)),
                          text_char_of(i, time_label_of(call.dt_offset,
                                                        call.time_label_text)),
                          has_passed_of(call.dt_offset, i)) # None

\* a bar whose sunset is in slot 0, the case in which line 95 is false with a
\* sunset present, rendered with a label
C16_Witness ==
    /\ Rendered
    /\ ret.raised = ""
    /\ Len(bar.slots) = 3
    /\ bar.cycle.sunset # None
    /\ SunsetOffsetOf(bar) = Some(0)
    /\ call.time_label_text = Some(LabelText(3))
    /\ Len(ColorsOf(ret.value)) = 3

(* C15 as stated: the markers of every candidate step are 0, step, 2 * step,
   ... up to and including 100, each at column offsetFromPercent(bar,
   marker); every returned scale begins with the marker 0 and ends with the
   marker 100. *)
C15_MarkersUpTo100 ==
    ScaleReturned =>
        \E step \in CandidateSteps :
            LET scale == TheValue(ret.value)
                tokens == split(scale)
            IN  /\ scale = candidate_scale_of(bar, step)
                /\ \A m \in MultiplesOf(step) \cup {100} : MarkerStandsAt(scale, m)
                /\ tokens[1] = <<"0">>
                /\ tokens[Len(tokens)] = <<"1", "0", "0">>

(* C15 as amended: the markers of every candidate step are the multiples of
   the step in 0..100, so the last one is 100 for the steps 10, 20, 25 and 50
   and 99 for the step 33; in a returned scale each stands at column
   offsetFromPercent(bar, marker), the scale begins with the marker 0 and ends
   with the last multiple. *)
C15_MarkersAreMultiples ==
    /\ AskedScale =>
          \A step \in CandidateSteps :
              { markers_of(step)[k] : k \in 1..Len(markers_of(step)) } = MultiplesOf(step)
    /\ ScaleReturned =>
          \E step \in CandidateSteps :
              LET scale == TheValue(ret.value)
                  tokens == split(scale)
                  last == CHOOSE m \in MultiplesOf(step) : m + step > 100
              IN  /\ scale = candidate_scale_of(bar, step)
                  /\ \A m \in MultiplesOf(step) : MarkerStandsAt(scale, m)
                  /\ Len(tokens) = Cardinality(MultiplesOf(step))
                  /\ tokens[1] = <<"0">>
                  /\ tokens[Len(tokens)] = str(last)
                  /\ last = IF step = 33 THEN 99 ELSE 100

\* the scale of step 25 on a bar of 12 slots: "0  25 50 75 100"
C15_Witness ==
    /\ ScaleReturned
    /\ Len(bar.slots) = 12
    /\ TheValue(ret.value) = candidate_scale_of(bar, 25)
    /\ MarkerStandsAt(TheValue(ret.value), 75)
    /\ cached_bar_offset_from_bar_and_percent(bar, 75).value = 9
    /\ split(TheValue(ret.value))[5] = <<"1", "0", "0">>

(* C17: with Cycle.spannning_dt( t ) returning a cycle with start <= t < end,
   every draw_frame of the loops of main and simulate_time and of the resize
   handler, whenever the signal arrives, gets a cycle and an instant with
   cycle.start <= instant < cycle.end; the offset of that instant on the
   frame's bar is returned, not raised, and is at most length - 1; and the
   loop gives up a cycle it holds only when local_now is outside of it. *)
C17_FramesWithinCycle ==
    [][ /\ call'.fn = "draw_frame" =>
              /\ call'.cycle.start <= call'.now
              /\ call'.now < call'.cycle.end
              /\ ret'.raised = ""
              /\ ret'.value \in 0..(Len(bar'.slots) - 1)
        /\ (cycle # None /\ cycle' # cycle) =>
              \/ TheValue(local_now) < TheValue(cycle).start
              \/ TheValue(local_now) >= TheValue(cycle).end
      ]_vars

\* the handler draws the pair it was given while the loop has moved on to
\* another cycle and another instant
C17_Witness ==
    /\ call.fn = "draw_frame"
    /\ call.by = "handler"
    /\ cycle # None
    /\ call.cycle # TheValue(cycle)
    /\ call.now # TheValue(local_now)
    /\ TheValue(local_now) >= call.cycle.end
    /\ ret.raised = ""
    /\ ret.value = call.bar_length - 1

====
